---- MODULE Spec2Model ----
(***************************************************************************)
(* Capture-and-clip pipeline of clipper: the Controller (src/app.rs), the  *)
(* Camera worker (src/camera.rs), the Recorder worker                      *)
(* (src/recorder/mod.rs) and the Audio worker (src/audio.rs), together     *)
(* with the disk, the encoder subprocess and the crossbeam channels that   *)
(* connect them.                                                           *)
(*                                                                         *)
(* Spec    : the pipeline, the Recorder's commands coming from the         *)
(*           Controller's key handling and the Camera's pacing loop.       *)
(* SpecRec : the Recorder and Audio workers under every command sequence   *)
(*           (any sender on the Recorder's command channel).               *)
(* SpecPad : the segment commands of the Recorder under a running clock.   *)
(***************************************************************************)
EXTENDS Integers, Sequences, FiniteSets, TLC

VARIABLES
    \* ---- Recorder worker (locals of recorder::start_thread)
    video_process,            \* Option<Child>: TRUE = Some
    segments,                 \* Vec<PathBuf>
    counter,
    fps,
    format,                   \* the pixel format name of the last UpdateConfig
    clip_start_time,
    waiting_for_first_frame,
    frames_written,
    last_frame_data,          \* Option<Vec<u8>>: 0 = None, else the frame
    rec_pc,                   \* "recv" | "await_ack" (blocked in ack_rx.recv())
    \* ---- Audio worker (locals of audio::start_thread)
    audio_alive,              \* FALSE: the thread returned before its loop
    writer_handle,            \* Arc<Mutex<Option<WavWriter>>>: TRUE = Some
    active_stream,            \* Option<cpal::Stream>: TRUE = Some
    selected_device_index,
    \* ---- Controller (fields of ClipperApp)
    state,                    \* AppState
    is_recording,
    playlist,                 \* Vec<ClipInfo>
    video_configs,            \* Vec<VideoConfig> of the last Capabilities
    selected_video_config,    \* Option<VideoConfig>
    last_error,               \* Option<String>: TRUE = Some
    \* ---- channels
    rec_q,                    \* Receiver<RecorderCommand>
    status_q,                 \* Receiver<RecorderStatus>
    aud_q,                    \* Receiver<AudioCommand>
    ack,                      \* the bounded(1) ack channel of one EndSegment
    \* ---- Camera worker (camera::start_thread)
    cam_pc,                   \* "query" | "wait_cmd" | "wait_retry" | "pacing" | "exited"
    camera_rx,                \* Receiver<CameraMessage> of the Controller
    camera_tx,                \* Sender<CameraCommand> of the Controller
    latest_frame,             \* latest_frame of the stream: 0 = None, else the frame
    frame_to_send,            \* the pacing loop's snapshot of it, 0 = None
    cam_lost,                 \* camera.frame() has returned Err; reads keep failing
    formats,                  \* what compatible_camera_formats() returned last
    frame_format,             \* FrameFormat of the last StartStream, "" before it
    \* ---- environment: disk, subprocesses, clock
    files,                    \* paths that exist in the working directory
    pipe_ok,                  \* the current encoder still reads its stdin
    stdin_written,            \* frame buffers written to the current encoder
    orphans,                  \* encoder processes alive with no Child handle
    wav_open,                 \* WAV writers that exist (created, not dropped)
    concat_content,           \* the lines of concat_list.txt, <<>> when there is none
    now,                      \* the monotonic clock, in ticks
    \* ---- history (not program state)
    done,                     \* the command the Recorder completed last
    given,                    \* clip names given to saved segments, this batch
    starts,                   \* StartSegments the Recorder has handled
    seg_start,                \* the clock when the open segment's StartSegment was handled
    snap                      \* list and disk before the StartSegment under watch

recVars  == <<video_process, segments, counter, fps, format, clip_start_time,
              waiting_for_first_frame, frames_written, last_frame_data, rec_pc>>
audVars  == <<audio_alive, writer_handle, active_stream, selected_device_index>>
ctlVars  == <<state, is_recording, playlist, video_configs, selected_video_config,
              last_error>>
chanVars == <<rec_q, status_q, aud_q, ack>>
camVars  == <<cam_pc, camera_rx, camera_tx, latest_frame, frame_to_send, cam_lost,
              formats, frame_format>>
envVars  == <<files, pipe_ok, stdin_written, orphans, wav_open, concat_content, now>>
histVars == <<done, given, starts, seg_start, snap>>
vars     == <<recVars, audVars, ctlVars, chanVars, camVars, envVars, histVars>>

(***************************************************************************)
(* Bounds of the model.                                                    *)
(***************************************************************************)
\* StartSegments in a run
MaxStarts  == 2
\* length of every channel
MaxQueue   == 1
\* clock ticks (half seconds)
MaxTime    == 1
\* WriteFrames accepted per segment
MaxFrames  == 1
MaxFormats == 3
\* frames a camera stream captures
MaxCaptures == 2

\* fps before the first UpdateConfig
DefaultFps == 30
\* frame rates the selected VideoConfig can carry
FpsSet == {4}
\* indices of the cpal input devices of the host
Devices == {0}

(***************************************************************************)
(* Paths.  A path is <<stem, digits>>; format!("clip_{:03}.mp4", n) pads   *)
(* the decimal digits of n with zeros to a width of at least 3.            *)
(***************************************************************************)
RECURSIVE Digits(_)
Digits(n) == IF n < 10 THEN <<n>> ELSE Append(Digits(n \div 10), n % 10)

RECURSIVE PadLeft(_, _)
PadLeft(ds, w) == IF Len(ds) >= w THEN ds ELSE PadLeft(<<0>> \o ds, w)

Fmt03(n) == PadLeft(Digits(n), 3)

ClipPath(n)    == <<"clip_.mp4", Fmt03(n)>>
ThumbPath(n)   == <<"thumb_.jpg", Fmt03(n)>>
PreviewPath(n) == <<"preview_.gif", Fmt03(n)>>
temp_vid  == <<"tmp_vid.mp4", <<>>>>
temp_aud  == <<"tmp_aud.mp4", <<>>>>
list_file == <<"concat_list.txt", <<>>>>
OutFile   == <<"vid.mp4", <<>>>>

ClipInfo(n) == [video_path |-> ClipPath(n), thumb_path |-> ThumbPath(n),
                preview_path |-> PreviewPath(n)]

Range(s) == {s[i] : i \in 1..Len(s)}
Last(s)  == s[Len(s)]
Front(s) == SubSeq(s, 1, Len(s) - 1)

(***************************************************************************)
(* Messages.  Every command is a record of the same shape; an Option is a  *)
(* sequence of length 0 or 1.                                              *)
(***************************************************************************)
Cmd(op) ==
    [op |-> op, data |-> 0, t |-> 0, fps |-> 0, fmt |-> "", index |-> 0,
     files |-> <<>>, out |-> <<>>]
StartSegment       == Cmd("StartSegment")
EndSegment         == Cmd("EndSegment")
Undo               == Cmd("Undo")
\* a frame buffer is the number of the capture that filled it
WriteFrame(data, capture_time) ==
    [Cmd("WriteFrame") EXCEPT !.data = data, !.t = capture_time]
UpdateConfig(f, fmt) == [Cmd("UpdateConfig") EXCEPT !.fps = f, !.fmt = fmt]
SetAudioDevice(i)  == [Cmd("SetAudioDevice") EXCEPT !.index = i]
FinalizeVideo(ordered_files, output_filename) ==
    [Cmd("FinalizeVideo") EXCEPT !.files = ordered_files, !.out = <<output_filename>>]

SegmentSaved(clip)   == [kind |-> "SegmentSaved", clip |-> <<clip>>, path |-> <<>>]
SegmentDeleted       == [kind |-> "SegmentDeleted", clip |-> <<>>, path |-> <<>>]
VideoFinalized(path) == [kind |-> "VideoFinalized", clip |-> <<>>, path |-> <<path>>]
Error(text)          == [kind |-> "Error", clip |-> <<>>, path |-> <<text>>]

SelectDevice(i) == [op |-> "SelectDevice", index |-> i]
StartRecording  == [op |-> "StartRecording", index |-> 0]
StopRecording   == [op |-> "StopRecording", index |-> 0]

\* aud_tx.send(m): fails (and is ignored by the callers that write `let _ =`)
\* when the Audio thread has returned and dropped its receiver
AudSend(q, m) == IF audio_alive THEN Append(q, m) ELSE q

(***************************************************************************)
(* History records.                                                        *)
(***************************************************************************)
\* `flip` changes with every command, so that done' # done marks the steps in
\* which the Recorder completes one
Done(op, res) == [op |-> op, res |-> res, flip |-> ~done.flip, arg |-> <<>>,
                  clips |-> <<>>, spawned |-> FALSE, piped |-> FALSE, accepted |-> 0,
                  written |-> 0, expected |-> 0, expectedT |-> 0,
                  failed_spawn |-> FALSE,
                  \* a StartSegment was handled and its EndSegment is not finished;
                  \* the fps in force at that StartSegment
                  open |-> done.open, start_fps |-> done.start_fps,
                  \* File::create(list_file) was Ok; the lines of concat_list.txt
                  \* the concat command read
                  created |-> FALSE, listed |-> <<>>,
                  \* the input format arguments build_cmd gave the encoder
                  input |-> <<>>]
NoneDone == [op |-> "none", res |-> "none", flip |-> FALSE, arg |-> <<>>,
             clips |-> <<>>, spawned |-> FALSE, piped |-> FALSE, accepted |-> 0,
             written |-> 0, expected |-> 0, expectedT |-> 0,
             failed_spawn |-> FALSE, open |-> FALSE, start_fps |-> 0,
             created |-> FALSE, listed |-> <<>>, input |-> <<>>]
\* the same entry for a command of a segment whose StartSegment failed to spawn
InSegment(d) == [d EXCEPT !.failed_spawn = done.failed_spawn]
NoSnap == [phase |-> "none", segments |-> <<>>, files |-> {}]

(***************************************************************************)
(* Recorder: pure steps of the handlers.                                   *)
(***************************************************************************)
\* (duration_secs * fps as f64).round() as u64, the duration being `elapsed`
\* half seconds; f64::round rounds half away from zero
ExpectedFrames(elapsed, f) == (elapsed * f + 1) \div 2

\* expected_frames - frames_written when frames_written < expected_frames
Missing(expected, fw) == IF fw < expected THEN expected - fw ELSE 0

PaddingWrittenShort(missing, has_last, ok) ==
    IF has_last /\ ok /\ missing > 0 THEN missing - 1 ELSE 0
\* copies of last_frame_data that reach the encoder's stdin
PaddingWritten(missing, has_last, ok) == IF has_last /\ ok THEN missing ELSE 0

\* build_cmd: the `-f` and `-pixel_format` values for the frames on stdin
InputFormat(fmt) ==
    CASE fmt = "MJPEG" -> <<"mjpeg", "">>
      [] fmt = "YUYV"  -> <<"rawvideo", "yuyv422">>
      [] fmt = "NV12"  -> <<"rawvideo", "nv12">>
      [] OTHER         -> <<"rawvideo", "rgb24">>

StartCounterStuck(c) == c
\* counter += 1
StartCounter(c) == c + 1

UndoCounterDecr(c) == IF c > 0 THEN c - 1 ELSE 0
\* Undo does not touch counter
UndoCounter(c) == c

\* format!("clip_{:03}.mp4", counter)
finfile(c) == ClipPath(c)

\* video_process.take() leaves None
TakeProcess(vp) == FALSE

FinalizeSkipNever(ordered_files) == FALSE
\* if ordered_files.is_empty() { continue; }
FinalizeSkip(ordered_files) == ordered_files = <<>>

FailedCleanupAll(fs, segs) == fs \ Range(segs)
\* the failure arm of FinalizeVideo removes nothing
FailedCleanup(fs, segs) == fs

\* the lines of concat_list.txt when the concat command starts: one per element
\* of ordered_files, in that order, if the file could be created
ListWritten(created, ordered_files, old) == IF created THEN ordered_files ELSE old

\* ffmpeg -f concat: succeeds only when the list file and every file it names exist
ConcatCanSucceed(fs, content) ==
    /\ list_file \in fs
    /\ content # <<>>
    /\ Range(content) \subseteq fs

\* room on a channel (the channels of the program are unbounded)
HasRoom(q) == Len(q) < MaxQueue

(***************************************************************************)
(* Recorder worker: one handler per arm of `match cmd`.  `cmd` is the      *)
(* command received and `sq` the status channel as the handler finds it.   *)
(***************************************************************************)
OnUpdateConfig(cmd, sq) ==
    /\ fps' = cmd.fps
    /\ format' = cmd.fmt
    /\ status_q' = sq
    /\ done' = Done("UpdateConfig", "ok")
    /\ snap' = NoSnap
    /\ UNCHANGED <<video_process, segments, counter, clip_start_time,
                   waiting_for_first_frame, frames_written, last_frame_data, rec_pc>>
    /\ UNCHANGED <<audVars, ctlVars, aud_q, ack, camVars, envVars, given, starts,
                   seg_start>>

OnSetAudioDevice(cmd, sq) ==
    /\ HasRoom(sq)
    /\ HasRoom(aud_q)
    /\ aud_q' = AudSend(aud_q, SelectDevice(cmd.index))
    /\ status_q' = IF audio_alive THEN sq ELSE Append(sq, Error("Audio thread lost"))
    /\ done' = Done("SetAudioDevice", IF audio_alive THEN "sent" ELSE "lost")
    /\ snap' = NoSnap
    /\ UNCHANGED <<recVars, audVars, ctlVars, ack, camVars, envVars, given, starts,
                   seg_start>>

InputFormatOfStream(fmt) == IF fmt \in {"MJPEG", "YUYV"} THEN InputFormat(fmt)
                            ELSE InputFormat("MJPEG")

OnStartSegment(cmd, sq) ==
    /\ HasRoom(sq)
    /\ HasRoom(aud_q)
    /\ counter' = StartCounter(counter)
    /\ frames_written' = 0
    /\ last_frame_data' = 0
    /\ \E spawned \in BOOLEAN :
        /\ IF spawned
           THEN /\ video_process' = TRUE
                \* the Child that was in video_process is dropped, not killed
                /\ orphans' = orphans + (IF video_process /\ pipe_ok THEN 1 ELSE 0)
                /\ pipe_ok' = TRUE
                /\ stdin_written' = 0
                /\ clip_start_time' = now
                /\ waiting_for_first_frame' = TRUE
                /\ status_q' = sq
           ELSE /\ status_q' = Append(sq, Error("Failed to spawn ffmpeg"))
                /\ UNCHANGED <<video_process, orphans, pipe_ok, stdin_written,
                               clip_start_time, waiting_for_first_frame>>
        /\ done' = [Done("StartSegment", IF spawned THEN "spawned" ELSE "spawn_failed")
                       EXCEPT !.failed_spawn = ~spawned, !.open = TRUE,
                              !.start_fps = fps, !.input = InputFormat(format)]
    /\ aud_q' = AudSend(aud_q, StartRecording)
    /\ seg_start' = now
    /\ starts' = starts + 1
    /\ snap' = IF video_process THEN NoSnap
               ELSE [phase |-> "started", segments |-> segments, files |-> files]
    /\ UNCHANGED <<segments, fps, format, rec_pc, audVars, ctlVars, ack, camVars,
                   files, wav_open, concat_content, now, given>>

FrameWrittenAlways(vp, ok) == TRUE

\* a frame goes to the encoder when a process is held and write_all succeeds
FrameWritten(vp, ok) == vp /\ ok

FirstFrameStartKept(first, started, at) == started

\* if waiting_for_first_frame { clip_start_time = Instant::now(); }
FirstFrameStart(first, started, at) == IF first THEN at ELSE started

\* the history entry of a WriteFrame carries its data and capture_time
FrameDone(cmd, res) == InSegment([Done("WriteFrame", res) EXCEPT !.arg = <<cmd.data, cmd.t>>])

OnWriteFrame(cmd, sq) ==
    /\ HasRoom(aud_q)
    /\ status_q' = sq
    /\ LET capture_time == cmd.t IN
       IF capture_time < clip_start_time
       THEN /\ done' = FrameDone(cmd, "stale")
            /\ UNCHANGED <<clip_start_time, waiting_for_first_frame, frames_written,
                           last_frame_data, aud_q, stdin_written>>
       ELSE /\ aud_q' = IF video_process /\ waiting_for_first_frame
                        THEN AudSend(aud_q, StartRecording) ELSE aud_q
            /\ clip_start_time' =
                    FirstFrameStart(video_process /\ waiting_for_first_frame,
                                    clip_start_time, now)
            /\ waiting_for_first_frame' = IF video_process THEN FALSE
                                          ELSE waiting_for_first_frame
            \* if let Some(proc) ... stdin.write_all(&data).is_ok()
            /\ IF FrameWritten(video_process, pipe_ok)
               THEN /\ frames_written' = frames_written + 1
                    /\ last_frame_data' = cmd.data
                    /\ stdin_written' = stdin_written + 1
                    /\ done' = FrameDone(cmd, "written")
               ELSE /\ done' = FrameDone(cmd, IF video_process THEN "write_failed"
                                              ELSE "idle")
                    /\ UNCHANGED <<frames_written, last_frame_data, stdin_written>>
    /\ UNCHANGED <<video_process, segments, counter, fps, format, rec_pc>>
    /\ UNCHANGED <<audVars, ctlVars, ack, camVars, files, pipe_ok, orphans, wav_open,
                   concat_content, now, given, starts, seg_start, snap>>

\* EndSegment up to the point where it blocks on the Audio ack: padding, closing
\* the encoder's stdin and waiting for it, sending StopRecording
OnEndSegment(cmd, sq) ==
    /\ HasRoom(aud_q)
    /\ status_q' = sq
    /\ waiting_for_first_frame' = FALSE
    /\ LET expected_frames == ExpectedFrames(now - clip_start_time, fps)
           missing == Missing(expected_frames, frames_written)
           padded  == IF video_process
                      THEN PaddingWritten(missing, last_frame_data # 0, pipe_ok) ELSE 0
           total   == stdin_written + padded
       IN /\ stdin_written' = total
          \* the encoder leaves its container once it has read a frame
          /\ files' = IF video_process /\ pipe_ok /\ total >= 1
                      THEN files \cup {temp_vid} ELSE files
          /\ done' = [InSegment(Done("EndSegment", "flushing")) EXCEPT
                        !.spawned = video_process,
                        !.piped = pipe_ok,
                        !.accepted = frames_written,
                        !.written = total,
                        !.expected = expected_frames,
                        !.expectedT = ExpectedFrames(now - seg_start, fps)]
    /\ video_process' = TakeProcess(video_process)
    /\ pipe_ok' = FALSE
    /\ aud_q' = AudSend(aud_q, StopRecording)
    /\ ack' = IF audio_alive THEN "none" ELSE "disconnected"
    /\ rec_pc' = "await_ack"
    /\ UNCHANGED <<segments, counter, fps, format, clip_start_time, frames_written,
                   last_frame_data>>
    /\ UNCHANGED <<audVars, ctlVars, camVars, orphans,
                   wav_open, concat_content, now, given, starts, seg_start, snap>>

\* what the thumbnail and the preview command leave on disk (both succeed)
ThumbsMade(c) == {{ThumbPath(c), PreviewPath(c)}}

\* the same when either command may fail: `.output()` is called and its result
\* dropped, so each of the two files is there or not
ThumbOutcomes(c) == SUBSET {ThumbPath(c), PreviewPath(c)}

FailedMergePushes(segs, c) == Append(segs, finfile(c))

\* the segment list after a mux that failed: nothing is pushed
FailedMergeSegments(segs, c) == segs

\* EndSegment from the ack on: temp-file check, mux, thumbnail, preview, status.
\* `made` is what the thumbnail and preview commands leave on disk.
AckNotAwaited(a) == TRUE

\* ack_rx.recv() has returned: the ack arrived, or the channel is disconnected
\* (also the case when aud_tx.send failed and ack_tx was dropped)
AckReturned(a) == a # "none"

EndSegmentMuxWith(made) ==
    /\ rec_pc = "await_ack"
    /\ AckReturned(ack)
    /\ HasRoom(status_q)
    /\ rec_pc' = "recv"
    /\ ack' = "none"
    /\ IF temp_vid \notin files \/ temp_aud \notin files
       THEN /\ status_q' = Append(status_q, Error("Temp files missing, recording failed"))
            /\ files' = files \ {temp_vid, temp_aud}
            /\ done' = [Done("EndSegment", "temp_missing") EXCEPT !.open = FALSE]
            /\ snap' = NoSnap
            /\ UNCHANGED <<segments, given>>
       ELSE \E merged \in BOOLEAN :
            IF merged
            THEN /\ segments' = Append(segments, finfile(counter))
                 /\ status_q' = Append(status_q, SegmentSaved(ClipInfo(counter)))
                 /\ files' = ((files \cup {finfile(counter)}) \cup made)
                                \ {temp_vid, temp_aud}
                 /\ done' = [Done("EndSegment", "saved") EXCEPT
                               !.clips = <<finfile(counter)>>, !.open = FALSE]
                 /\ given' = Append(given, finfile(counter))
                 /\ snap' = IF snap.phase = "started"
                            THEN [snap EXCEPT !.phase = "saved"] ELSE NoSnap
            ELSE /\ status_q' = Append(status_q, Error("Merge failed"))
                 /\ done' = [Done("EndSegment", "merge_failed") EXCEPT !.open = FALSE]
                 /\ snap' = NoSnap
                 /\ segments' = FailedMergeSegments(segments, counter)
                 /\ UNCHANGED <<files, given>>
    \* the pipe of the encoder that exited is gone
    /\ stdin_written' = 0
    /\ seg_start' = 0
    /\ UNCHANGED <<video_process, counter, fps, format, clip_start_time,
                   waiting_for_first_frame, frames_written, last_frame_data>>
    /\ UNCHANGED <<audVars, ctlVars, rec_q, aud_q, camVars, pipe_ok,
                   orphans, wav_open, concat_content, now, starts>>

UndoRemovedFirst(segs) == {segs[1]}

\* the file Undo deletes: the path it popped
UndoRemoved(segs) == {Last(segs)}

UndoStatusAlways(sq, popped) == Append(sq, SegmentDeleted)

\* SegmentDeleted is sent inside `if let Some(path) = segments.pop()`
UndoStatus(sq, popped) == IF popped THEN Append(sq, SegmentDeleted) ELSE sq

OnUndo(cmd, sq) ==
    /\ HasRoom(sq)
    /\ IF segments # <<>>
       THEN /\ segments' = Front(segments)
            /\ files' = files \ UndoRemoved(segments)
            /\ status_q' = UndoStatus(sq, TRUE)
            /\ counter' = UndoCounter(counter)
            /\ done' = [Done("Undo", "popped") EXCEPT !.clips = <<Last(segments)>>]
            /\ snap' = IF snap.phase = "saved"
                       THEN [snap EXCEPT !.phase = "undone"] ELSE NoSnap
       ELSE /\ status_q' = UndoStatus(sq, FALSE)
            /\ done' = Done("Undo", "empty")
            /\ snap' = NoSnap
            /\ UNCHANGED <<segments, files, counter>>
    /\ UNCHANGED <<video_process, fps, format, clip_start_time, waiting_for_first_frame,
                   frames_written, last_frame_data, rec_pc>>
    /\ UNCHANGED <<audVars, ctlVars, aud_q, ack, camVars, pipe_ok,
                   stdin_written, orphans, wav_open, concat_content, now, given, starts, seg_start>>

FinalizedSegmentsKept(segs) == segs

\* segments.clear()
FinalizedSegments(segs) == <<>>

\* `creates` holds the results File::create(list_file) may have
OnFinalizeVideoWith(cmd, sq, creates) ==
    /\ HasRoom(sq)
    /\ LET ordered_files   == cmd.files
           output_filename == cmd.out[1]
       IN IF FinalizeSkip(ordered_files)
          THEN /\ status_q' = sq
               /\ done' = [Done("FinalizeVideo", "skipped") EXCEPT !.arg = ordered_files]
               /\ UNCHANGED <<segments, counter, files, concat_content, given>>
          ELSE \* if let Ok(mut f) = fs::File::create(list_file): one line per
               \* element of ordered_files; otherwise the file is left as it is
               \E created \in creates :
               LET listed == IF created THEN files \cup {list_file} ELSE files
                   lines  == ListWritten(created, ordered_files, concat_content)
               IN
               \E success \in {ConcatCanSucceed(listed, lines), FALSE} :
                  IF success
                  THEN /\ status_q' = Append(sq, VideoFinalized(output_filename))
                       /\ files' = ((listed \cup {output_filename}) \ {list_file})
                                      \ Range(segments)
                       /\ concat_content' = <<>>
                       /\ segments' = FinalizedSegments(segments)
                       /\ counter' = 0
                       /\ given' = <<>>
                       /\ done' = [Done("FinalizeVideo", "finalized") EXCEPT
                                     !.arg = ordered_files, !.clips = segments,
                                     !.created = created, !.listed = lines]
                  ELSE /\ status_q' = Append(sq, Error("Final concat fialed"))
                       /\ files' = FailedCleanup(listed, segments)
                       /\ concat_content' = lines
                       /\ done' = [Done("FinalizeVideo", "failed") EXCEPT
                                     !.arg = ordered_files,
                                     !.created = created, !.listed = lines]
                       /\ UNCHANGED <<segments, counter, given>>
    /\ snap' = NoSnap
    /\ UNCHANGED <<video_process, fps, format, clip_start_time, waiting_for_first_frame,
                   frames_written, last_frame_data, rec_pc>>
    /\ UNCHANGED <<audVars, ctlVars, aud_q, ack, camVars, pipe_ok, stdin_written,
                   orphans, wav_open, now, starts, seg_start>>

\* FinalizeVideo with a list file that can be created
OnFinalizeVideo(cmd, sq) == OnFinalizeVideoWith(cmd, sq, {TRUE})

\* `match cmd`
Handle(cmd, sq) ==
    \/ cmd.op = "UpdateConfig"   /\ OnUpdateConfig(cmd, sq)
    \/ cmd.op = "SetAudioDevice" /\ OnSetAudioDevice(cmd, sq)
    \/ cmd.op = "StartSegment"   /\ OnStartSegment(cmd, sq)
    \/ cmd.op = "WriteFrame"     /\ OnWriteFrame(cmd, sq)
    \/ cmd.op = "EndSegment"     /\ OnEndSegment(cmd, sq)
    \/ cmd.op = "Undo"           /\ OnUndo(cmd, sq)
    \/ cmd.op = "FinalizeVideo"  /\ OnFinalizeVideo(cmd, sq)

\* `while let Ok(cmd) = cmd_rx.recv()`
RecorderRecv ==
    /\ rec_pc = "recv"
    /\ rec_q # <<>>
    /\ rec_q' = Tail(rec_q)
    /\ Handle(Head(rec_q), status_q)

(***************************************************************************)
(* Audio worker: one action per arm of `match cmd`.  Its AudioMessage      *)
(* channel only feeds the Controller's error banner and is left out.       *)
(***************************************************************************)
AudHead(op) ==
    /\ audio_alive
    /\ aud_q # <<>>
    /\ Head(aud_q).op = op

AudSelectDevice ==
    /\ AudHead("SelectDevice")
    /\ aud_q' = Tail(aud_q)
    /\ selected_device_index' = Head(aud_q).index
    /\ active_stream' = FALSE
    /\ UNCHANGED <<audio_alive, writer_handle>>
    /\ UNCHANGED <<recVars, ctlVars, rec_q, status_q, ack, camVars, envVars, histVars>>

ReplacedKept(old) == 0
\* `*guard = Some(writer)` drops the writer that was in the slot
ReplacedDropped(old) == IF old THEN 1 ELSE 0

AudStartRecording ==
    /\ AudHead("StartRecording")
    /\ aud_q' = Tail(aud_q)
    /\ IF selected_device_index \notin Devices
       THEN \* devices.get(selected_device_index) is None
            UNCHANGED <<writer_handle, active_stream, files, wav_open>>
       ELSE \E outcome \in {"config_error", "create_error", "created"} :
            IF outcome # "created"
            THEN UNCHANGED <<writer_handle, active_stream, files, wav_open>>
            ELSE /\ files' = files \cup {temp_aud}
                 /\ wav_open' = (wav_open + 1) - ReplacedDropped(writer_handle)
                 /\ writer_handle' = TRUE
                 /\ IF active_stream
                    THEN active_stream' = TRUE
                    ELSE \E played \in BOOLEAN : active_stream' = played
    /\ UNCHANGED <<audio_alive, selected_device_index>>
    /\ UNCHANGED <<recVars, ctlVars, rec_q, status_q, ack, camVars, pipe_ok,
                   stdin_written, orphans, concat_content, now, histVars>>

AckOnlyWithWriter(had_writer) == IF had_writer THEN "acked" ELSE "none"

\* `let _ = ack_tx.send(())` is outside the `if let Some(mut writer)`
AckAfterStop(had_writer) == "acked"

AudStopRecording ==
    /\ AudHead("StopRecording")
    /\ aud_q' = Tail(aud_q)
    \* guard.take(): the writer is flushed and dropped, whether or not flush fails
    /\ wav_open' = IF writer_handle THEN wav_open - 1 ELSE wav_open
    /\ writer_handle' = FALSE
    /\ ack' = AckAfterStop(writer_handle)
    /\ UNCHANGED <<audio_alive, active_stream, selected_device_index>>
    /\ UNCHANGED <<recVars, ctlVars, rec_q, status_q, camVars, files, pipe_ok,
                   stdin_written, orphans, concat_content, now, histVars>>

AudioNext ==
    \/ AudSelectDevice
    \/ AudStartRecording
    \/ AudStopRecording

(***************************************************************************)
(* Environment: the clock, and the encoder subprocess exiting on its own.  *)
(***************************************************************************)
Tick ==
    /\ now < MaxTime
    /\ now' = now + 1
    /\ UNCHANGED <<recVars, audVars, ctlVars, chanVars, camVars, files,
                   pipe_ok, stdin_written, orphans, wav_open, concat_content, histVars>>

\* the encoder dies mid-segment: later writes to its stdin fail (broken pipe)
EncoderDies ==
    /\ video_process
    /\ pipe_ok
    /\ pipe_ok' = FALSE
    /\ UNCHANGED <<recVars, audVars, ctlVars, chanVars, camVars, files,
                   stdin_written, orphans, wav_open, concat_content, now, histVars>>

\* an encoder whose Child was dropped sees its stdin closed and exits
OrphanExits ==
    /\ orphans > 0
    /\ orphans' = orphans - 1
    /\ UNCHANGED <<recVars, audVars, ctlVars, chanVars, camVars, files,
                   pipe_ok, stdin_written, wav_open, concat_content, now, histVars>>

\* encoder subprocesses of the Recorder that are alive
EncodersAlive == (IF video_process /\ pipe_ok THEN 1 ELSE 0) + orphans

(***************************************************************************)
(* Initial state: main() has built the channels and started the threads.   *)
(***************************************************************************)
Init ==
    /\ video_process = FALSE
    /\ segments = <<>>
    /\ counter = 0
    /\ fps = DefaultFps
    /\ format = "MJPEG"
    /\ clip_start_time = 0
    /\ waiting_for_first_frame = FALSE
    /\ frames_written = 0
    /\ last_frame_data = 0
    /\ rec_pc = "recv"
    \* host.input_devices() may fail: the Audio thread then returns at once
    /\ audio_alive \in BOOLEAN
    /\ writer_handle = FALSE
    /\ active_stream = FALSE
    /\ selected_device_index = 0
    /\ state = "Loading"
    /\ is_recording = FALSE
    /\ playlist = <<>>
    /\ video_configs = <<>>
    /\ selected_video_config = <<>>
    /\ last_error = FALSE
    /\ rec_q = <<>>
    /\ status_q = <<>>
    /\ aud_q = <<>>
    /\ ack = "none"
    /\ cam_pc = "query"
    /\ camera_rx = <<>>
    /\ camera_tx = <<>>
    /\ latest_frame = 0
    /\ frame_to_send = 0
    /\ cam_lost = FALSE
    /\ formats = <<>>
    /\ frame_format = ""
    /\ files = {}
    /\ pipe_ok = FALSE
    /\ stdin_written = 0
    /\ orphans = 0
    /\ wav_open = 0
    /\ concat_content = <<>>
    /\ now = 0
    /\ done = NoneDone
    /\ given = <<>>
    /\ starts = 0
    /\ seg_start = 0
    /\ snap = NoSnap

(***************************************************************************)
(* Camera worker.  Frame messages only feed the preview texture and are    *)
(* left out of camera_rx.                                                  *)
(***************************************************************************)
CamMsg(kind, f) == [kind |-> kind, fps |-> f, text |-> "", configs |-> <<>>]
CamError(text)  == [CamMsg("Error", 0) EXCEPT !.text = text]

\* CameraCommand
StartStream(cfg) == [op |-> "StartStream", fps |-> cfg.fps, fmt |-> cfg.fmt]
Retry          == [op |-> "Retry", fps |-> 0, fmt |-> ""]
\* every Sender<CameraCommand> was dropped: recv() returns Err once the commands
\* sent before are received.  Kept as the last element of the channel.
Hangup         == [op |-> "Hangup", fps |-> 0, fmt |-> ""]

VideoConfig(w, h, f, fmt) == [width |-> w, height |-> h, fps |-> f, fmt |-> fmt]

\* if !configs.contains(&c) { configs.push(c); }
RECURSIVE Dedup(_, _)
Dedup(configs, fmts) ==
    IF fmts = <<>> THEN configs
    ELSE Dedup(IF \E i \in 1..Len(configs) : configs[i] = Head(fmts)
               THEN configs ELSE Append(configs, Head(fmts)),
               Tail(fmts))

BeforeByFps(a, b) == a.fps > b.fps \/ (a.fps = b.fps /\ a.width > b.width)

\* b.width.cmp(&a.width).then(b.fps.cmp(&a.fps)) is Less: a sorts before b
Before(a, b) == a.width > b.width \/ (a.width = b.width /\ a.fps > b.fps)

\* sort_by is stable: c goes in front of the first element it sorts before
InsertSorted(sorted, c) ==
    LET firsts == {i \in 1..Len(sorted) : Before(c, sorted[i])}
        at     == IF firsts = {} THEN Len(sorted) + 1
                  ELSE CHOOSE i \in firsts : \A k \in firsts : i <= k
    IN SubSeq(sorted, 1, at - 1) \o <<c>> \o SubSeq(sorted, at, Len(sorted))

RECURSIVE SortConfigs(_, _)
SortConfigs(sorted, rest) ==
    IF rest = <<>> THEN sorted
    ELSE SortConfigs(InsertSorted(sorted, Head(rest)), Tail(rest))

Capabilities(configs) == [CamMsg("Capabilities", 0) EXCEPT !.configs = configs]

\* Camera::new and compatible_camera_formats, then Capabilities or Error;
\* `lists` is what the device may report
CamQueryOf(lists) ==
    /\ cam_pc = "query"
    /\ HasRoom(camera_rx)
    /\ \E res \in {"ok", "Camera initialization failed", "Query failed"} :
        IF res = "ok"
        THEN \E fmts \in lists :
             /\ formats' = fmts
             /\ camera_rx' = Append(camera_rx,
                    Capabilities(SortConfigs(<<>>, Dedup(<<>>, fmts))))
             /\ cam_pc' = "wait_cmd"
        ELSE /\ camera_rx' = Append(camera_rx, CamError(res))
             /\ cam_pc' = "wait_retry"
             /\ formats' = formats
    /\ UNCHANGED <<recVars, audVars, ctlVars, chanVars, camera_tx, latest_frame,
                   frame_to_send, cam_lost, frame_format, envVars, histVars>>

\* the one device of the pipeline
DeviceLists == {<<VideoConfig(2, 1, f, "MJPEG")>> : f \in FpsSet}

CamQuery == CamQueryOf(DeviceLists)

\* cmd_rx.recv() returns StartStream(cfg): the stream is opened, or an Error is
\* sent and the thread waits for a Retry
\* match cfg.fmt.as_str() { MJPEG => MJPEG, YUYV => YUYV, _ => MJPEG }
FrameFormat(fmt) == IF fmt \in {"MJPEG", "YUYV"} THEN fmt ELSE "MJPEG"

CamStartStream ==
    /\ cam_pc = "wait_cmd"
    /\ camera_tx # <<>>
    /\ Head(camera_tx).op = "StartStream"
    /\ HasRoom(camera_rx)
    /\ camera_tx' = Tail(camera_tx)
    /\ \E res \in {"ok", "Re-init failed", "Open stream failed"} :
        IF res = "ok"
        THEN /\ camera_rx' = Append(camera_rx,
                                    CamMsg("StreamStarted", Head(camera_tx).fps))
             /\ cam_pc' = "pacing"
        ELSE /\ camera_rx' = Append(camera_rx, CamError(res))
             /\ cam_pc' = "wait_retry"
    \* a new latest_frame, holding None, and a new capture thread
    /\ latest_frame' = 0
    /\ cam_lost' = FALSE
    /\ frame_format' = FrameFormat(Head(camera_tx).fmt)
    /\ UNCHANGED <<recVars, audVars, ctlVars, chanVars, frame_to_send, formats, envVars,
                   histVars>>

\* cmd_rx.recv() returns Retry: back to the top of the outer loop
CamRetry ==
    /\ cam_pc = "wait_cmd"
    /\ camera_tx # <<>>
    /\ Head(camera_tx).op = "Retry"
    /\ camera_tx' = Tail(camera_tx)
    /\ cam_pc' = "query"
    /\ UNCHANGED <<recVars, audVars, ctlVars, chanVars, camera_rx, latest_frame, frame_to_send,
                   cam_lost, formats, frame_format, envVars, histVars>>

AfterWaitAny(c) == "query"

\* where one received command leaves wait_for_retry
AfterWait(c) == IF c.op = "Retry" THEN "query" ELSE "wait_retry"

\* wait_for_retry: a Retry ends the wait, any other command is dropped
CamWaitRetry ==
    /\ cam_pc = "wait_retry"
    /\ camera_tx # <<>>
    /\ Head(camera_tx).op # "Hangup"
    /\ camera_tx' = Tail(camera_tx)
    /\ cam_pc' = AfterWait(Head(camera_tx))
    /\ UNCHANGED <<recVars, audVars, ctlVars, chanVars, camera_rx, latest_frame, frame_to_send,
                   cam_lost, formats, frame_format, envVars, histVars>>

\* recv() returns Err in the outer loop or in wait_for_retry: `break`
CamExit ==
    /\ cam_pc \in {"wait_cmd", "wait_retry"}
    /\ camera_tx # <<>>
    /\ Head(camera_tx).op = "Hangup"
    /\ cam_pc' = "exited"
    /\ UNCHANGED <<recVars, audVars, ctlVars, chanVars, camera_rx, camera_tx,
                   latest_frame, frame_to_send, cam_lost, formats, frame_format, envVars, histVars>>

\* capture thread, camera.frame() is Ok: the frame is stored in latest_frame
\* (the frames of a stream are numbered from 1; `n` bounds their number)
CamCaptureUpTo(n) ==
    /\ cam_pc \in {"pacing", "send"}
    /\ ~cam_lost
    /\ latest_frame < n
    /\ latest_frame' = latest_frame + 1
    /\ UNCHANGED <<recVars, audVars, ctlVars, chanVars, cam_pc, camera_rx, camera_tx,
                   frame_to_send, cam_lost, formats, frame_format, envVars, histVars>>

CamCapture == CamCaptureUpTo(1)

\* capture thread, camera.frame() is Err: the thread sleeps 10 ms and reads
\* again; nothing is sent and neither loop is left
CamFrameFails ==
    /\ cam_pc = "pacing"
    /\ ~cam_lost
    /\ cam_lost' = TRUE
    /\ UNCHANGED <<recVars, audVars, ctlVars, chanVars, cam_pc, camera_rx, camera_tx,
                   latest_frame, frame_to_send, formats, frame_format, envVars, histVars>>

\* WriteFrames the Recorder has not received yet
FramesPending == Cardinality({i \in 1..Len(rec_q) : rec_q[i].op = "WriteFrame"})

\* one turn of the pacing loop with a frame in latest_frame
CamPace ==
    /\ cam_pc = "pacing"
    /\ latest_frame # 0
    /\ HasRoom(rec_q)
    /\ frames_written + FramesPending < MaxFrames
    /\ rec_q' = Append(rec_q, WriteFrame(latest_frame, now))
    /\ UNCHANGED <<recVars, audVars, ctlVars, status_q, aud_q, ack, camVars, envVars,
                   histVars>>

CameraNext ==
    \/ CamQuery
    \/ CamStartStream
    \/ CamCapture
    \/ CamPace

(***************************************************************************)
(* Controller: one action per input event of a frame of                    *)
(* ClipperApp::update.  Every frame first drains camera_rx and rec_status. *)
(***************************************************************************)
\* the `while let Ok(stat) = self.rec_status.try_recv()` loop
RECURSIVE ApplyStatuses(_, _)
ApplyStatuses(pl, sq) ==
    IF sq = <<>> THEN pl
    ELSE LET stat == Head(sq)
             next == CASE stat.kind = "SegmentSaved"   -> Append(pl, stat.clip[1])
                       [] stat.kind = "SegmentDeleted" ->
                              IF pl = <<>> THEN pl ELSE Front(pl)
                       [] stat.kind = "VideoFinalized" -> <<>>
                       [] OTHER                        -> pl
         IN ApplyStatuses(next, Tail(sq))

\* the `while let Ok(msg) = self.camera_rx.try_recv()` loop: the AppState it leaves
RECURSIVE CamState(_, _)
CamState(st, cq) ==
    IF cq = <<>> THEN st
    ELSE CamState(IF Head(cq).kind = "Capabilities" THEN "Configuring" ELSE st, Tail(cq))

\* self.video_configs.first().cloned()
First(configs) == IF configs = <<>> THEN <<>> ELSE <<configs[1]>>

\* ... the video_configs and the selected_video_config it leaves
RECURSIVE ConfigsAfter(_, _)
ConfigsAfter(vc, cq) ==
    IF cq = <<>> THEN vc
    ELSE ConfigsAfter(IF Head(cq).kind = "Capabilities" THEN Head(cq).configs ELSE vc,
                      Tail(cq))

RECURSIVE SelectedAfter(_, _)
SelectedAfter(sel, cq) ==
    IF cq = <<>> THEN sel
    ELSE SelectedAfter(IF Head(cq).kind = "Capabilities" THEN First(Head(cq).configs)
                       ELSE sel, Tail(cq))

\* ... and the UpdateConfig it sends for every StreamStarted, with the format
\* of the config selected at that point
RECURSIVE CamSendsFrom(_, _)
CamSendsFrom(sel, cq) ==
    IF cq = <<>> THEN <<>>
    ELSE (IF Head(cq).kind = "StreamStarted" /\ sel # <<>>
          THEN <<UpdateConfig(Head(cq).fps, sel[1].fmt)>> ELSE <<>>)
            \o CamSendsFrom(SelectedAfter(sel, <<Head(cq)>>), Tail(cq))

CamSends(cq) == CamSendsFrom(selected_video_config, cq)

\* self.playlist.iter().map(|c| c.video_path.clone()).collect()
clip_paths(pl) == [i \in 1..Len(pl) |-> pl[i].video_path]

\* let item = self.playlist.remove(from); self.playlist.insert(to, item)
\* (from and to count from 1 here)
MoveItem(pl, from, to) ==
    LET item == pl[from]
        rest == SubSeq(pl, 1, from - 1) \o SubSeq(pl, from + 1, Len(pl))
    IN SubSeq(rest, 1, to - 1) \o <<item>> \o SubSeq(rest, to, Len(rest))

\* StartSegments sent so far
StartsSent == starts + Cardinality({i \in 1..Len(rec_q) : rec_q[i].op = "StartSegment"})

\* one frame: the drains, then what the event of the frame does
FrameAll(st, rec, pl, sel, err, sends, cam_sends) ==
    /\ Len(rec_q) + Len(CamSends(camera_rx)) + Len(sends) <= MaxQueue
    /\ Len(camera_tx) + Len(cam_sends) <= MaxQueue
    /\ state' = st
    /\ is_recording' = rec
    /\ playlist' = pl
    /\ video_configs' = ConfigsAfter(video_configs, camera_rx)
    /\ selected_video_config' = sel
    /\ last_error' = err
    /\ rec_q' = (rec_q \o CamSends(camera_rx)) \o sends
    /\ camera_tx' = camera_tx \o cam_sends
    /\ camera_rx' = <<>>
    /\ status_q' = <<>>
    /\ UNCHANGED <<recVars, audVars, aud_q, ack, cam_pc, latest_frame, frame_to_send,
                   cam_lost, formats, frame_format, envVars, histVars>>

DrainedState == CamState(state, camera_rx)
DrainedSelected == SelectedAfter(selected_video_config, camera_rx)

\* last_error after the drains: an Error of the Camera or of the Recorder
\* sets it
HasError(q) == \E i \in 1..Len(q) : q[i].kind = "Error"
DrainedError == last_error \/ HasError(camera_rx) \/ HasError(status_q)

FrameWith(st, rec, pl, sel, sends, cam_sends) ==
    FrameAll(st, rec, pl, sel, DrainedError, sends, cam_sends)

Frame(st, rec, pl, sends, cam_sends) ==
    FrameWith(st, rec, pl, DrainedSelected, sends, cam_sends)
DrainedList  == ApplyStatuses(playlist, status_q)

\* a frame with no input event that has something to drain
UpdateIdle ==
    /\ camera_rx # <<>> \/ status_q # <<>>
    /\ Frame(DrainedState, is_recording, DrainedList, <<>>, <<>>)

SpacePressed ==
    /\ ~is_recording
    /\ StartsSent < MaxStarts
    \* self.last_error = None
    /\ FrameAll(DrainedState, TRUE, DrainedList, DrainedSelected, FALSE,
                <<StartSegment>>, <<>>)

SpaceReleased ==
    /\ is_recording
    /\ Frame(DrainedState, FALSE, DrainedList, <<EndSegment>>, <<>>)

UndoKeyAlways(recording) == TRUE

\* `key_pressed(Backspace) && !self.is_recording`
UndoKey(recording) == ~recording

BackspacePressed ==
    /\ UndoKey(is_recording)
    /\ Frame(DrainedState, is_recording, DrainedList, <<Undo>>, <<>>)

\* Enter, the save dialog returning a path
EnterPressed ==
    /\ ~is_recording
    /\ DrainedList # <<>>
    /\ Frame(DrainedState, is_recording, DrainedList,
             <<FinalizeVideo(clip_paths(DrainedList), OutFile)>>, <<>>)

\* the Merge button of show_running, the save dialog returning a path
MergeClicked ==
    /\ DrainedState = "Running"
    /\ ~is_recording
    /\ DrainedList # <<>>
    /\ Frame(DrainedState, is_recording, DrainedList,
             <<FinalizeVideo(clip_paths(DrainedList), OutFile)>>, <<>>)

\* a drag of timeline item `from` over item `to`
Reorder ==
    /\ DrainedState = "Running"
    /\ \E from \in 1..Len(DrainedList), to \in 1..Len(DrainedList) :
        /\ from # to
        /\ Frame(DrainedState, is_recording, MoveItem(DrainedList, from, to), <<>>, <<>>)

\* the Retry button of the Loading page, drawn when last_error is Some:
\* `self.last_error = None`, and nothing is sent
RetryClicked ==
    /\ DrainedState = "Loading"
    /\ DrainedError
    /\ FrameAll(DrainedState, is_recording, DrainedList, DrainedSelected, FALSE,
                <<>>, <<>>)

\* the Confirm button of show_config
Confirm ==
    /\ DrainedState = "Configuring"
    /\ DrainedSelected # <<>>
    /\ LET cfg == DrainedSelected[1] IN
        Frame("Running", is_recording, DrainedList,
              <<UpdateConfig(cfg.fps, cfg.fmt)>>, <<StartStream(cfg)>>)

\* a click on an entry of the video config list of show_config
SelectConfig ==
    /\ DrainedState = "Configuring"
    /\ \E cfg \in Range(ConfigsAfter(video_configs, camera_rx)) :
        /\ <<cfg>> # DrainedSelected
        /\ FrameWith(DrainedState, is_recording, DrainedList, <<cfg>>, <<>>, <<>>)

\* a click in the audio device list of show_config (the DeviceList has arrived)
SelectAudio ==
    /\ DrainedState = "Configuring"
    /\ audio_alive
    /\ \E i \in Devices :
        Frame(DrainedState, is_recording, DrainedList, <<SetAudioDevice(i)>>, <<>>)

ControllerNext ==
    \/ UpdateIdle
    \/ SpacePressed
    \/ SpaceReleased
    \/ BackspacePressed
    \/ EnterPressed
    \/ MergeClicked
    \/ Reorder
    \/ Confirm
    \/ SelectAudio

(***************************************************************************)
(* Spec: the pipeline.                                                     *)
(***************************************************************************)
EndSegmentMux == \E made \in ThumbsMade(counter) : EndSegmentMuxWith(made)

\* the same step when the thumbnail and preview commands may fail
EndSegmentMuxAny == \E made \in ThumbOutcomes(counter) : EndSegmentMuxWith(made)

Next ==
    \/ ControllerNext
    \/ CameraNext
    \/ RecorderRecv
    \/ EndSegmentMux
    \/ AudioNext
    \/ EncoderDies

Spec == Init /\ [][Next]_vars

(***************************************************************************)
(* SpecRec: any sender on the Recorder's command channel.  The sender      *)
(* reads the Recorder's replies before it sends, and the Recorder takes    *)
(* each command as it is sent.                                             *)
(***************************************************************************)
\* ordered lists of clip paths a FinalizeVideo carries
OrderedLists == {<<>>, <<ClipPath(1)>>, <<ClipPath(2), ClipPath(1)>>}

AnyCommand ==
    {StartSegment, EndSegment, Undo} \cup {WriteFrame(1, t) : t \in 0..now}
        \cup {UpdateConfig(f, "MJPEG") : f \in FpsSet}
        \cup {SetAudioDevice(i) : i \in Devices}
        \cup {FinalizeVideo(l, OutFile) : l \in OrderedLists}

\* the sender sends one of `cmds` once the workers have caught up, and the Recorder
\* takes it; the sender has read the status channel empty
RecorderFrom(cmds) ==
    /\ rec_pc = "recv"
    /\ rec_q = <<>>
    /\ aud_q = <<>>
    /\ rec_q' = rec_q
    /\ \E cmd \in cmds :
        /\ cmd.op = "StartSegment" => starts < MaxStarts
        /\ (cmd.op = "WriteFrame" /\ video_process) => frames_written < MaxFrames
        /\ Handle(cmd, <<>>)

RecorderAny == RecorderFrom(AnyCommand)

NextRec ==
    \/ RecorderAny
    \/ EndSegmentMux
    \/ AudioNext
    \/ EncoderDies
    \/ OrphanExits

SpecRec == Init /\ [][NextRec]_vars

\* the same with the Recorder and the Audio thread running on: a step either
\* thread can take is taken (the mux and the encoder subprocess terminate)
SpecLive ==
    /\ Init /\ [][NextRec]_vars
    /\ WF_vars(EndSegmentMux)
    /\ WF_vars(AudioNext)

(***************************************************************************)
(* SpecFmt: a device that offers several pixel formats, the Controller     *)
(* choosing one, the Camera opening the stream and the Recorder starting   *)
(* an encoder for its frames.                                              *)
(***************************************************************************)
FmtLists ==
    {<<VideoConfig(2, 1, f, "MJPEG"), VideoConfig(2, 1, f, "YUYV"),
       VideoConfig(2, 1, f, "NV12")>> : f \in FpsSet}

CamQueryFmt == CamQueryOf(FmtLists)

NextFmt ==
    \/ CamQueryFmt
    \/ UpdateIdle
    \/ SelectConfig
    \/ Confirm
    \/ CamStartStream
    \/ SpacePressed
    \/ SpaceReleased
    \/ RecorderRecv
    \/ EndSegmentMux
    \/ AudStartRecording
    \/ AudStopRecording

SpecFmt == Init /\ [][NextFmt]_vars

(***************************************************************************)
(* SpecRetry: the Controller from start-up to the running stream, with its *)
(* Retry button, and the workers it talks to.  Every thread runs on, and a *)
(* Retry button that is shown again and again is clicked.                  *)
(***************************************************************************)
NextRetry ==
    \/ CamQueryFmt
    \/ CamStartStream
    \/ UpdateIdle
    \/ SelectConfig
    \/ SelectAudio
    \/ Confirm
    \/ RetryClicked
    \/ RecorderRecv
    \/ AudSelectDevice

SpecRetry ==
    /\ Init /\ [][NextRetry]_vars
    /\ WF_vars(CamQueryFmt \/ CamStartStream)
    /\ WF_vars(RecorderRecv)
    /\ WF_vars(AudSelectDevice)
    /\ WF_vars(UpdateIdle)
    /\ SF_vars(RetryClicked)

(***************************************************************************)
(* SpecCell: the capture thread and the pacing loop around latest_frame,   *)
(* the pacing loop's turn in its two steps, under a running clock.  The    *)
(* Recorder is not scheduled: rec_q keeps what was sent, in send order.    *)
(***************************************************************************)
CamCaptureAny == CamCaptureUpTo(MaxCaptures)

SendAlways(frame) == TRUE

\* if let Some(data) = frame_to_send
HasFrame(frame) == frame # 0

\* the pacing loop locks latest_frame and clones what it holds
CamSnapshot ==
    /\ cam_pc = "pacing"
    /\ frame_to_send' = latest_frame
    /\ cam_pc' = "send"
    /\ UNCHANGED <<recVars, audVars, ctlVars, chanVars, camera_rx, camera_tx,
                   latest_frame, cam_lost, formats, frame_format, envVars, histVars>>

\* the rest of the turn: the frame, if any, is sent with the time of the send;
\* frame_to_send is moved out and the loop sleeps to its next tick
CamSend ==
    /\ cam_pc = "send"
    /\ Len(rec_q) <= MaxCaptures
    /\ rec_q' = IF HasFrame(frame_to_send)
                THEN Append(rec_q, WriteFrame(frame_to_send, now)) ELSE rec_q
    /\ frame_to_send' = 0
    /\ cam_pc' = "pacing"
    /\ UNCHANGED <<recVars, audVars, ctlVars, status_q, aud_q, ack, camera_rx,
                   camera_tx, latest_frame, cam_lost, formats, frame_format, envVars, histVars>>

NextCell ==
    \/ CamQuery
    \/ UpdateIdle
    \/ Confirm
    \/ CamStartStream
    \/ CamCaptureAny
    \/ CamSnapshot
    \/ CamSend
    \/ Tick

SpecCell == Init /\ [][NextCell]_vars

(***************************************************************************)
(* SpecFrame: segments fed with frames of any data and capture time.       *)
(***************************************************************************)
FrameCommand ==
    {StartSegment, EndSegment}
        \cup {WriteFrame(data, t) : data \in 1..MaxCaptures, t \in 0..now}

RecorderFrames == RecorderFrom(FrameCommand)

NextFrame ==
    \/ RecorderFrames
    \/ EndSegmentMux
    \/ AudStartRecording
    \/ AudStopRecording
    \/ EncoderDies
    \/ Tick

SpecFrame == Init /\ [][NextFrame]_vars

(***************************************************************************)
(* SpecPad: the segment commands under a running clock.                    *)
(***************************************************************************)
PadCommand ==
    {StartSegment, EndSegment} \cup {WriteFrame(1, t) : t \in 0..now}
        \cup {UpdateConfig(f, "MJPEG") : f \in FpsSet}

RecorderPad == RecorderFrom(PadCommand)

NextPad ==
    \/ RecorderPad
    \/ EndSegmentMuxAny
    \/ AudStartRecording
    \/ AudStopRecording
    \/ EncoderDies
    \/ OrphanExits
    \/ Tick

SpecPad == Init /\ [][NextPad]_vars

(***************************************************************************)
(* The pipeline with a Camera that can lose its device and any holder of   *)
(* the CameraCommand sender sending Retry.  The worker threads keep        *)
(* running (weak fairness); the user's events are not fair.                *)
(***************************************************************************)
SendRetry ==
    /\ HasRoom(camera_tx)
    /\ camera_tx' = Append(camera_tx, Retry)
    /\ UNCHANGED <<recVars, audVars, ctlVars, chanVars, cam_pc, camera_rx,
                   latest_frame, frame_to_send, cam_lost, formats, frame_format, envVars, histVars>>

\* the steps of the thread of camera::start_thread
CameraThread ==
    \/ CamQuery
    \/ CamStartStream
    \/ CamRetry
    \/ CamWaitRetry
    \/ CamPace

\* the steps of the thread of recorder::start_thread
RecorderThread == RecorderRecv \/ EndSegmentMux

NextCam ==
    \/ UpdateIdle
    \/ SpacePressed
    \/ SpaceReleased
    \/ Confirm
    \/ SendRetry
    \/ CamQuery
    \/ CamStartStream
    \/ CamRetry
    \/ CamWaitRetry
    \/ CamCapture
    \/ CamFrameFails
    \/ CamPace
    \/ RecorderRecv
    \/ EndSegmentMux
    \/ AudStartRecording
    \/ AudStopRecording

SpecCam ==
    /\ Init /\ [][NextCam]_vars
    /\ WF_vars(CameraThread)
    /\ WF_vars(RecorderThread)
    /\ WF_vars(AudStartRecording \/ AudStopRecording)
    /\ WF_vars(UpdateIdle)

(***************************************************************************)
(* The Camera worker under any holder of its command channel: StartStream  *)
(* and Retry in any order, and the channel being closed.  The Controller   *)
(* only drains camera_rx and the Recorder only receives.                   *)
(***************************************************************************)
CommandsOpen == IF camera_tx = <<>> THEN TRUE ELSE Last(camera_tx).op # "Hangup"

CameraAny ==
    /\ CommandsOpen
    /\ HasRoom(camera_tx)
    /\ \E c \in {StartStream(VideoConfig(2, 1, f, "MJPEG")) : f \in FpsSet} \cup {Retry} :
        camera_tx' = Append(camera_tx, c)
    /\ UNCHANGED <<recVars, audVars, ctlVars, chanVars, cam_pc, camera_rx,
                   latest_frame, frame_to_send, cam_lost, formats, frame_format, envVars, histVars>>

CloseCommands ==
    /\ CommandsOpen
    /\ camera_tx' = Append(camera_tx, Hangup)
    /\ UNCHANGED <<recVars, audVars, ctlVars, chanVars, cam_pc, camera_rx,
                   latest_frame, frame_to_send, cam_lost, formats, frame_format, envVars, histVars>>

NextCmd ==
    \/ CameraAny
    \/ CloseCommands
    \/ CamQuery
    \/ CamStartStream
    \/ CamRetry
    \/ CamWaitRetry
    \/ CamExit
    \/ CamCapture
    \/ CamPace
    \/ UpdateIdle
    \/ RecorderRecv

SpecCmd == Init /\ [][NextCmd]_vars

(***************************************************************************)
(* Recording and finalizing with a concat_list.txt that may fail to be     *)
(* created.                                                                *)
(***************************************************************************)
SegCommand == {StartSegment, EndSegment, WriteFrame(1, 0)}

RecorderSeg == RecorderFrom(SegCommand)

RecorderFinalize ==
    /\ rec_pc = "recv"
    /\ rec_q = <<>>
    /\ aud_q = <<>>
    /\ rec_q' = rec_q
    /\ \E l \in OrderedLists \ {<<>>} :
        OnFinalizeVideoWith(FinalizeVideo(l, OutFile), <<>>, BOOLEAN)

NextFin ==
    \/ RecorderSeg
    \/ RecorderFinalize
    \/ EndSegmentMux
    \/ AudStartRecording
    \/ AudStopRecording

SpecFin == Init /\ [][NextFin]_vars

(***************************************************************************)
(* Enumeration alone: the device reports any list of up to MaxFormats      *)
(* formats, repeats included, and the Controller drains the message.       *)
(***************************************************************************)
Configs ==
    {VideoConfig(w, 1, f, "MJPEG") : w \in {1, 2}, f \in {4, 8}}
        \cup {VideoConfig(2, 2, 8, "YUYV")}

FormatLists == UNION {[1..n -> Configs] : n \in 0..MaxFormats}

CamQueryAny == CamQueryOf(FormatLists)

NextEnum ==
    \/ CamQueryAny
    \/ UpdateIdle

SpecEnum == Init /\ [][NextEnum]_vars

(***************************************************************************)
(* Properties.                                                             *)
(***************************************************************************)
\* a step in which the Recorder completes a command
RecStep == done' # done

ThumbOf(p)   == <<"thumb_.jpg", p[2]>>
PreviewOf(p) == <<"preview_.gif", p[2]>>

\* the files the round-trip law speaks of: clips, thumbnails, previews, temp files
Watched(fs) == fs \ {list_file, OutFile}

C2_CounterLaw ==
    [][/\ starts' # starts => counter' = counter + 1
       /\ (starts' = starts /\ counter' # counter) =>
             /\ done'.op = "FinalizeVideo"
             /\ done'.res = "finalized"
             /\ counter' = 0]_vars

\* C2 (witness): a StartSegment handled after a successful FinalizeVideo has reset
\* the counter: the counter is 1 on the second StartSegment of the run.
C2_Witness ==
    /\ done.op = "StartSegment"
    /\ starts >= 2
    /\ counter = 1

\* C3 (as the claim states it): an Undo on a non-empty list removes the newest entry,
\* leaves none of the clip's video, thumbnail and preview files on disk and emits
\* exactly one SegmentDeleted.
C3_UndoDeletesAllThree ==
    [][(RecStep /\ done'.op = "Undo" /\ segments # <<>>) =>
          /\ segments' = Front(segments)
          /\ status_q' = <<SegmentDeleted>>
          /\ Last(segments) \notin files'
          /\ ThumbOf(Last(segments)) \notin files'
          /\ PreviewOf(Last(segments)) \notin files']_vars

\* C4: within a batch no clip name is given twice, undone segments included.
C4_NamesDistinct ==
    \A i \in 1..Len(given) : \A j \in 1..Len(given) : i # j => given[i] # given[j]

\* C4 (witness): a segment was saved after an earlier segment of the batch was undone.
C4_Witness ==
    /\ Len(given) >= 2
    /\ given[1] \notin Range(segments)
    /\ Last(given) \in Range(segments)

\* C5 (as the claim states it): after StartSegment; WriteFrame*; EndSegment (mux
\* succeeds); Undo from an idle Recorder, the segment list and the clip, thumbnail,
\* preview and temp files on disk are what they were before the StartSegment.
C5_RoundTrip ==
    snap.phase = "undone" =>
        /\ segments = snap.segments
        /\ Watched(files) = Watched(snap.files)

\* C6: a FinalizeVideo with an empty list emits no status, creates and deletes no
\* file, and leaves the segment list and the counter as they are.
C6_EmptyFinalizeNoOp ==
    [][(RecStep /\ done'.op = "FinalizeVideo" /\ done'.arg = <<>>) =>
          /\ status_q' = <<>>
          /\ files' = files
          /\ segments' = segments
          /\ counter' = counter]_vars

\* C6 (witness): an empty FinalizeVideo was handled while the Recorder held a segment.
C6_Witness ==
    /\ done.op = "FinalizeVideo"
    /\ done.arg = <<>>
    /\ segments # <<>>
    /\ counter >= 1

\* C7 (as the claim states it): once VideoFinalized(out) is emitted, out exists and
\* no clip, thumbnail or preview of the finalized batch and no concat_list.txt remains.
C7_FinalizeCleansUp ==
    (done.op = "FinalizeVideo" /\ done.res = "finalized") =>
        /\ OutFile \in files
        /\ list_file \notin files
        /\ \A p \in Range(done.clips) :
              /\ p \notin files
              /\ ThumbOf(p) \notin files
              /\ PreviewOf(p) \notin files

\* C8: when the concat of a non-empty FinalizeVideo fails, the Recorder emits one
\* Error and no VideoFinalized, deletes no file, and keeps its list and counter.
C8_FailedFinalizeKeeps ==
    [][(RecStep /\ done'.op = "FinalizeVideo" /\ done'.res = "failed") =>
          /\ Len(status_q') = 1
          /\ status_q'[1].kind = "Error"
          /\ files \subseteq files'
          /\ segments' = segments
          /\ counter' = counter]_vars

\* C8 (witness): a FinalizeVideo of the Recorder's own clips has failed, the clips
\* are on disk.
C8_Witness ==
    /\ done.op = "FinalizeVideo"
    /\ done.res = "failed"
    /\ segments # <<>>
    /\ Range(done.arg) \subseteq Range(segments)
    /\ Range(segments) \subseteq files

\* C9 (as the claim states it): at every EndSegment whose encoder was spawned, the
\* buffers written to its stdin are at least round(T * fps), T running from the
\* StartSegment.
C9_PaddingFromStart ==
    (done.op = "EndSegment" /\ done.res = "flushing" /\ done.spawned) =>
        done.written >= done.expectedT

\* C9 (amended): at every EndSegment whose encoder was spawned and still reads its
\* stdin, and whose segment had at least one frame written, the buffers written are
\* at least round(T * fps), T running from clip_start_time (the handling of the
\* segment's first frame).
C9_PaddingFromFirstFrame ==
    (done.op = "EndSegment" /\ done.res = "flushing" /\ done.spawned /\ done.piped
        /\ done.accepted >= 1) =>
        done.written >= done.expected

\* C9 (witness): an EndSegment has padded: more buffers were written than frames
\* were accepted.
C9_Witness ==
    /\ done.op = "EndSegment"
    /\ done.res = "flushing"
    /\ done.spawned /\ done.piped
    /\ done.accepted >= 1
    /\ done.written > done.accepted
    /\ done.written = done.expected

\* C10 (as the claim states it): whenever the Controller has drained every status,
\* the clips of its playlist are the clips of the Recorder's segment list.
C10_PlaylistMatchesSegments ==
    status_q = <<>> => Range(clip_paths(playlist)) = Range(segments)

\* C11: every SegmentSaved(c) is emitted with c.video_path, c.thumb_path and
\* c.preview_path all on disk, also when the thumbnail or the preview command
\* failed.
C11_SavedClipFilesExist ==
    [][(RecStep /\ done'.op = "EndSegment" /\ done'.res = "saved")
         => /\ status_q' = Append(status_q, SegmentSaved(ClipInfo(counter)))
            /\ {ClipInfo(counter).video_path, ClipInfo(counter).thumb_path,
                ClipInfo(counter).preview_path} \subseteq files']_vars

\* C12: every path in the Recorder's segment list names a clip file that is on
\* disk (only the Recorder creates and deletes clip files).
C12_SegmentsOnDisk == Range(segments) \subseteq files

\* a clip is still listed, and on disk, after a newer one was undone
C12_Witness ==
    /\ done.op = "Undo" /\ done.res = "popped"
    /\ segments # <<>>
    /\ Range(segments) \subseteq files

\* C13: when EndSegment has been handled, by whichever exit (temp files
\* missing, mux succeeded, mux failed), neither tmp_vid.mp4 nor tmp_aud.mp4 is
\* on disk.
C13_NoTempAfterEndSegment ==
    [][(RecStep /\ done'.op = "EndSegment" /\ done'.res # "flushing")
         => (temp_vid \notin files' /\ temp_aud \notin files')]_vars

\* C14: an EndSegment that closes a segment in which no frame was written
\* (frames_written = 0 since its StartSegment, and no frame reached the
\* encoder it closes) emits the temp-files-missing Error, emits no
\* SegmentSaved, appends nothing to the segment list and leaves neither temp
\* file on disk.
C14_NoFrameNoSegment ==
    [][(RecStep /\ done.op = "EndSegment" /\ done.res = "flushing"
          /\ done.spawned /\ done.accepted = 0 /\ done.written = 0)
         => /\ status_q' = Append(status_q,
                                  Error("Temp files missing, recording failed"))
            /\ segments' = segments
            /\ temp_vid \notin files' /\ temp_aud \notin files']_vars

\* C15: a WriteFrame handled while no encoder is held (Idle) is discarded:
\* nothing goes to an encoder, frames_written and last_frame_data keep their
\* values, no status and no audio command is sent, and the segment list, the
\* counter and the files are unchanged.
C15_IdleFrameDiscarded ==
    [][(RecStep /\ done'.op = "WriteFrame" /\ ~video_process)
         => /\ UNCHANGED <<frames_written, last_frame_data, stdin_written>>
            /\ UNCHANGED <<segments, counter, files, aud_q>>
            /\ status_q' = <<>>]_vars

\* a frame was discarded after a segment had been saved
C15_Witness ==
    /\ done.op = "WriteFrame" /\ done.res = "idle"
    /\ ~video_process
    /\ segments # <<>>

\* C16: when the mux command fails the Recorder emits Error("Merge failed"),
\* emits no SegmentSaved and leaves its segment list unchanged.
C16_MergeFailedKeepsList ==
    [][(RecStep /\ done'.op = "EndSegment" /\ done'.res = "merge_failed")
         => /\ status_q' = Append(status_q, Error("Merge failed"))
            /\ segments' = segments]_vars

\* a mux failed while an earlier clip was in the list
C16_Witness ==
    /\ done.op = "EndSegment" /\ done.res = "merge_failed"
    /\ segments # <<>>
    /\ Last(segments) # finfile(counter)

\* C17: a StartSegment whose encoder fails to spawn emits the spawn-failure
\* Error, and the EndSegment that follows it (no encoder being held) finds the
\* temp files missing, emits the temp-files-missing Error and appends no
\* segment, whatever happened in earlier segments.
C17_FailedSpawnNoSegment ==
    [][/\ (RecStep /\ done'.op = "StartSegment" /\ done'.res = "spawn_failed")
            => status_q' = <<Error("Failed to spawn ffmpeg")>>
       /\ (RecStep /\ done.op = "EndSegment" /\ done.res = "flushing"
              /\ done.failed_spawn /\ ~done.spawned)
            => /\ status_q' = Append(status_q,
                                     Error("Temp files missing, recording failed"))
               /\ segments' = segments]_vars

\* a Retry is waiting on the Camera's command channel
RetryQueued == \E i \in 1..Len(camera_tx) : camera_tx[i].op = "Retry"

\* C18: a Retry sent to the Camera while it is streaming is eventually
\* consumed: the Camera abandons the stream and is back at enumeration (whose
\* next step emits Capabilities or Error).
C18_RetryWhileStreamingConsumed ==
    (cam_pc = "pacing" /\ RetryQueued) ~> (cam_pc = "query")

\* Error("Camera lost") is on its way to the Controller
LostReported == \E i \in 1..Len(camera_rx) : camera_rx[i] = CamError("Camera lost")

\* C19: when a frame read fails during streaming the Camera emits
\* Error("Camera lost") and leaves the streaming loops for its outer loop.
C19_CameraLostReported ==
    /\ (cam_pc = "pacing" /\ cam_lost) ~> LostReported
    /\ (cam_pc = "pacing" /\ cam_lost) ~> (cam_pc # "pacing")

\* the pacing loop has a frame to send at its next tick
Streaming == cam_pc = "pacing" /\ latest_frame # 0

\* C20: once the camera is lost mid-stream (frame reads keep failing) the
\* Camera stops sending WriteFrame for good, so an open segment gets no more
\* frames before its EndSegment.
C20_NoFramesAfterLoss ==
    [](cam_lost => <>[]~Streaming)

\* a step in which the Camera receives the command at the head of its channel
CamReceives == camera_tx # <<>> /\ camera_tx' = Tail(camera_tx)

\* C21: a failed enumeration, open or stream start emits exactly one Error and
\* the Camera waits; in the wait a command other than Retry is dropped without
\* effect, a Retry restarts the enumeration, and the closed command channel
\* ends the worker; the wait is left in no other way.
C21_ErrorThenWaitForRetry ==
    [][/\ (cam_pc # "wait_retry" /\ cam_pc' = "wait_retry")
            => /\ Len(camera_rx') = Len(camera_rx) + 1
               /\ Last(camera_rx').kind = "Error"
               /\ Front(camera_rx') = camera_rx
       /\ cam_pc = "wait_retry" => Len(camera_rx') <= Len(camera_rx)
       /\ (cam_pc = "wait_retry" /\ CamReceives /\ Head(camera_tx).op # "Retry")
            => UNCHANGED <<cam_pc, camera_rx, rec_q, latest_frame, frame_to_send, cam_lost, formats>>
       /\ (cam_pc = "wait_retry" /\ CamReceives /\ Head(camera_tx).op = "Retry")
            => (cam_pc' = "query" /\ UNCHANGED <<camera_rx, rec_q>>)
       /\ (cam_pc = "wait_retry" /\ cam_pc' # "wait_retry")
            => \/ CamReceives /\ Head(camera_tx).op = "Retry" /\ cam_pc' = "query"
               \/ /\ camera_tx # <<>> /\ Head(camera_tx).op = "Hangup"
                  /\ cam_pc' = "exited" /\ UNCHANGED <<camera_rx, rec_q>>]_vars

\* the Camera waits after the Error it sent, a StartStream being next in its
\* command channel
C21_Witness ==
    /\ cam_pc = "wait_retry"
    /\ camera_rx # <<>> /\ Last(camera_rx).kind = "Error"
    /\ camera_tx # <<>> /\ Head(camera_tx).op = "StartStream"

\* the list of the Capabilities message just sent
SentConfigs == Last(camera_rx').configs

\* C22: the Capabilities list holds every format the device reported, each
\* exactly once, ordered by descending width and, among equal widths, by
\* descending fps.
C22_CapabilitiesDedupedSorted ==
    [][(cam_pc = "query" /\ cam_pc' = "wait_cmd")
         => /\ Last(camera_rx').kind = "Capabilities"
            /\ {SentConfigs[i] : i \in 1..Len(SentConfigs)}
                  = {formats'[i] : i \in 1..Len(formats')}
            /\ \A i, j \in 1..Len(SentConfigs) :
                  i < j => /\ SentConfigs[i] # SentConfigs[j]
                           /\ SentConfigs[i].width >= SentConfigs[j].width
                           /\ SentConfigs[i].width = SentConfigs[j].width
                                => SentConfigs[i].fps >= SentConfigs[j].fps]_vars

\* a Capabilities of two configs of different widths is on the channel, sent
\* for a report that held a repeat and was in ascending order
C22_Witness ==
    /\ camera_rx # <<>> /\ Last(camera_rx).kind = "Capabilities"
    /\ Len(Last(camera_rx).configs) = 2
    /\ Len(formats) > 2
    /\ formats[1].width < formats[Len(formats)].width
    /\ Last(camera_rx).configs[1] = formats[Len(formats)]

\* a StartSegment joins the Recorder's command channel
StartSegmentSent ==
    /\ rec_q' # <<>> /\ Last(rec_q') = StartSegment
    /\ StartsSent' = StartsSent + 1

\* C23: the Controller sends StartSegment only when it is not recording and
\* its state is Running, so a Space press in Loading or Configuring sends
\* nothing to the Recorder.
C23_StartOnlyWhenRunning ==
    [][StartSegmentSent => (~is_recording /\ DrainedState = "Running")]_vars

\* C24: an UpdateConfig handled while a segment is open does not affect that
\* segment: the fps EndSegment uses for the expected frame count is the one
\* in force at the segment's StartSegment.
C24_ConfigTakesEffectAtNextStart ==
    [][(RecStep /\ done'.op = "EndSegment" /\ done'.res = "flushing"
          /\ done.open /\ done'.spawned)
         => done'.expected = ExpectedFrames(now - clip_start_time, done.start_fps)]_vars

\* C25: for FinalizeVideo(ordered_paths, out) with a non-empty list, the
\* concat list file the concat command reads holds exactly one line per
\* element of ordered_paths, in the order given.
C25_ListInGivenOrder ==
    [][(RecStep /\ done'.op = "FinalizeVideo" /\ done'.arg # <<>>)
         => done'.listed = done'.arg]_vars

\* a StopRecording the Audio thread has not handled yet
StopPending == \E i \in 1..Len(aud_q) : aud_q[i].op = "StopRecording"

\* C26: within one EndSegment the padding is written, the encoder's stdin is
\* closed and the encoder has exited before StopRecording is sent, and the mux
\* starts only after the ack arrived or Audio was found disconnected: never
\* while the encoder of the segment or its WAV writer is open.
C26_EndSegmentOrder ==
    [][/\ (RecStep /\ done'.op = "EndSegment" /\ done'.res = "flushing")
            => /\ ~video_process' /\ ~pipe_ok'
               /\ stdin_written' = done'.written
               /\ rec_pc' = "await_ack"
               /\ IF audio_alive
                  THEN aud_q' = Append(aud_q, StopRecording) /\ ack' = "none"
                  ELSE aud_q' = aud_q /\ ack' = "disconnected"
       /\ (rec_pc = "await_ack" /\ rec_pc' = "recv")
            => /\ ack \in {"acked", "disconnected"}
               /\ ack = "acked" => audio_alive
               /\ ~video_process /\ ~pipe_ok
               /\ ~StopPending
               /\ ~writer_handle /\ wav_open = 0]_vars

\* the mux has run on an ack, after an encoder that took frames and a WAV
\* writer that was open
C26_Witness ==
    /\ done.op = "EndSegment" /\ done.res = "saved"
    /\ audio_alive
    /\ wav_open = 0 /\ ~pipe_ok /\ frames_written > 0

\* C27: every EndSegment the Recorder starts handling finishes and the
\* Recorder receives commands again: Audio acks every StopRecording, writer or
\* not, and a terminated Audio thread is seen as a disconnection.
C27_EndSegmentFinishes == (rec_pc = "await_ack") ~> (rec_pc = "recv")

\* an EndSegment has finished although the Audio thread had terminated
C27_Witness ==
    /\ rec_pc = "recv"
    /\ done.op = "EndSegment" /\ done.res = "temp_missing"
    /\ ~audio_alive

C29_FrameAcceptance ==
    [][(RecStep /\ done'.op = "WriteFrame" /\ video_process)
         => LET data == done'.arg[1]
                capture_time == done'.arg[2]
            IN IF capture_time < clip_start_time
               THEN /\ done'.res = "stale"
                    /\ UNCHANGED <<frames_written, last_frame_data, stdin_written,
                                   clip_start_time, waiting_for_first_frame>>
               ELSE /\ waiting_for_first_frame'  = FALSE
                    /\ clip_start_time' = IF waiting_for_first_frame THEN now
                                          ELSE clip_start_time
                    /\ IF pipe_ok
                       THEN /\ done'.res = "written"
                            /\ frames_written' = frames_written + 1
                            /\ stdin_written' = stdin_written + 1
                            /\ last_frame_data' = data
                       ELSE UNCHANGED <<frames_written, last_frame_data,
                                        stdin_written>>]_vars

\* the first frame of a segment was written some time after the StartSegment
C29_Witness ==
    /\ done.op = "WriteFrame" /\ done.res = "written"
    /\ video_process
    /\ clip_start_time = now /\ clip_start_time > seg_start
    /\ frames_written = 1
    /\ last_frame_data = done.arg[1]

\* a step that sends one WriteFrame to the Recorder
FrameSent ==
    IF Len(rec_q') = Len(rec_q) + 1 THEN Last(rec_q').op = "WriteFrame" ELSE FALSE

\* C30: the pacing loop's snapshot is what latest_frame holds at that moment;
\* a turn sends at most one WriteFrame, that snapshot, and none when the cell
\* was empty; no frame older than one already sent is sent (an overwritten
\* frame is gone) and capture times never decrease in send order.
C30_LatestFrameCell ==
    [][/\ (cam_pc = "pacing" /\ cam_pc' = "send") => frame_to_send' = latest_frame
       /\ FrameSent
            => /\ cam_pc = "send" /\ cam_pc' = "pacing"
               /\ frame_to_send # 0 /\ latest_frame # 0
               /\ rec_q' = Append(rec_q, WriteFrame(frame_to_send, now))
               /\ \A i \in 1..Len(rec_q) :
                    rec_q[i].op = "WriteFrame"
                        => /\ rec_q[i].t <= Last(rec_q').t
                           /\ rec_q[i].data <= Last(rec_q').data
       /\ (cam_pc = "send" /\ cam_pc' = "pacing" /\ ~FrameSent)
            => rec_q' = rec_q /\ frame_to_send = 0]_vars

\* frame 2 was sent, at a later time than the turn before, and frame 1, which
\* it overwrote in the cell, was not
C30_Witness ==
    /\ cam_pc = "pacing"
    /\ \E i \in 1..Len(rec_q) :
        rec_q[i].op = "WriteFrame" /\ rec_q[i].data = 2 /\ rec_q[i].t > 0
    /\ \A i \in 1..Len(rec_q) : rec_q[i].op = "WriteFrame" => rec_q[i].data # 1

\* C31: between a StartSegment and its EndSegment the Recorder sends
\* StartRecording to Audio exactly once, in the StartSegment step: a
\* WriteFrame step of the open segment sends Audio nothing, so temp_aud is
\* not created a second time.
C31_StartRecordingOncePerSegment ==
    [][/\ (RecStep /\ done'.op = "StartSegment")
            => aud_q' = AudSend(aud_q, StartRecording)
       /\ (RecStep /\ done'.op = "WriteFrame" /\ done.open)
            => aud_q' = aud_q]_vars

\* C32: an EndSegment handled while no encoder is held (Idle) saves nothing:
\* its mux step emits no SegmentSaved, leaves the segment list as it was and
\* writes no clip file.
C32_IdleEndSegmentSavesNothing ==
    [][(RecStep /\ done.op = "EndSegment" /\ done.res = "flushing" /\ ~done.spawned)
         => /\ done'.res # "saved"
            /\ segments' = segments
            /\ status_q' # Append(status_q, SegmentSaved(ClipInfo(counter)))]_vars

\* C33: a clip saved for a segment is muxed from the temp video its own
\* encoder wrote: the EndSegment that saves it closed an encoder spawned at
\* the segment's StartSegment, and that encoder read at least one frame, so
\* the tmp_vid.mp4 that is muxed is not one left by an earlier segment.
C33_ClipFromOwnTempFiles ==
    [][(RecStep /\ done'.op = "EndSegment" /\ done'.res = "saved" /\ done.open)
         => (done.spawned /\ done.piped /\ done.written >= 1)]_vars

\* C34: the Recorder's segment list never holds the same path twice, after
\* any sequence of StartSegment, WriteFrame, EndSegment, Undo and
\* FinalizeVideo, whether they succeed or fail.
C34_SegmentPathsDistinct ==
    \A i, j \in 1..Len(segments) : segments[i] = segments[j] => i = j

\* after a successful FinalizeVideo reset the counter, the next segment was
\* saved under the first clip name again
C34_Witness ==
    /\ done.op = "EndSegment" /\ done.res = "saved"
    /\ starts = 2 /\ counter = 1
    /\ segments = <<finfile(1)>>

\* C35: when the Recorder starts an encoder right after the UpdateConfig of a
\* Confirm, with the Camera streaming, the stream's pixel format is the one
\* the Recorder was configured with (the one requested) and the encoder is
\* told to read its input in that format.
C35_StreamAndEncoderFormatAgree ==
    [][(RecStep /\ done'.op = "StartSegment" /\ done.op = "UpdateConfig"
          /\ cam_pc = "pacing")
         => /\ frame_format = format
            /\ done'.input = InputFormatOfStream(frame_format)]_vars

\* C36: an Undo handled with an empty segment list changes nothing: no status
\* is emitted, no file is deleted, the list and the counter stay.  A
\* SegmentDeleted is only ever emitted by a step that pops one entry, a clip
\* that was saved, so deletions never outnumber saves.
C36_UndoOnEmptyIsNoop ==
    [][/\ (RecStep /\ done'.op = "Undo" /\ segments = <<>>)
            => /\ status_q' = status_q
               /\ UNCHANGED <<files, segments, counter>>
       /\ (status_q' = Append(status_q, SegmentDeleted))
            => /\ segments # <<>>
               /\ segments' = Front(segments)
               /\ Last(segments) \in Range(given)]_vars

\* an Undo found the list empty after a segment had been recorded, with
\* files on disk
C36_Witness ==
    /\ done.op = "Undo" /\ done.res = "empty"
    /\ segments = <<>>
    /\ counter > 0
    /\ files # {}

\* C37: whenever the Camera waits for a Retry after an Error, with the
\* Controller on its Loading page and the Retry button offered, a Retry
\* command is eventually on the Camera's command channel (the button sends
\* one), so the wait ends.
C37_RetryIsSent ==
    (cam_pc = "wait_retry" /\ state = "Loading" /\ last_error)
        ~> (RetryQueued \/ cam_pc # "wait_retry")

====
